---- MODULE Spec2Model ----
(***************************************************************************)
(* Model of src/Math/Polynomial.h: the dense polynomial class Polynomial<T>*)
(* (coefficients low to high), its arithmetic operators, the Newton        *)
(* reciprocal, division by reversal, and multi-point evaluation over a     *)
(* heap-indexed product tree.                                              *)
(*                                                                         *)
(* The coefficient type T is instantiated with the prime field Z/3Z.       *)
(* A computation yields an outcome [st, c]: st = "ok" with the value c, or *)
(*   "ub"     an access outside a vector's bounds (undefined behaviour),   *)
(*   "throw"  std::vector constructed with a negative size (length_error), *)
(*   "assert" the assert of reciprocal failed.                             *)
(* After an out-of-range read in += / -= the entries read hold arbitrary   *)
(* values; after any other "ub" the value handed back is any member of    *)
(* Junk, and no further operation is modelled.                             *)
(***************************************************************************)
EXTENDS Integers, Sequences, FiniteSets, TLC

VARIABLES
    coeffs,     \* the receiver's coefficient vector (Polynomial::coeffs)
    other,      \* the coefficient vector of the argument polynomial
    op,         \* the operation performed last / the phase of a running call
    arg,        \* the scalar or int argument of the last operation
    ret,        \* the vector the last operation returned
    rem,        \* the second component of divide_modulo's pair
    val,        \* the scalar evaluate returned
    status,     \* "ok", "ub", "throw", "assert"
    xs,         \* the roots / evaluation points (std::vector<T> x)
    tree,       \* std::vector<Polynomial<T>> tree, indexed from 0
    stack,      \* the call stack of the recursive functions
    rv,         \* the value returned by the call that returned last
    wlog,       \* the tree indices written, in order
    rlog        \* the tree indices read

vars == <<coeffs, other, op, arg, ret, rem, val, status, xs, tree, stack, rv, wlog, rlog>>

----------------------------------------------------------------------------
\* Bounds of the model.

MaxLen == 3        \* longest coefficient vector of an operand
MaxN == 4          \* largest precision n handed to reciprocal and operator%(int)
MaxPts == 3        \* longest list of roots / evaluation points
MaxDepth == 4      \* cap on the number of stacked recursive calls
MaxJunk == 1       \* longest vector handed back after undefined behaviour

----------------------------------------------------------------------------
\* The coefficient field T = Z/3Z.

T == 0..2

P == Cardinality(T)

FromInt(i) == i % P

FAdd(a, b) == (a + b) % P

FSub(a, b) == (a - b + P) % P

FMul(a, b) == (a * b) % P

FNeg(a) == (P - a) % P

FInv(a) == CHOOSE b \in T : (a * b) % P = 1

Max(a, b) == IF a >= b THEN a ELSE b

SeqsUpTo(n) == UNION {[1..k -> T] : k \in 0..n}

\* Canonical values: non-empty, no trailing zero unless the length is 1.
IsCanonical(c) == Len(c) >= 1 /\ (Len(c) > 1 => c[Len(c)] # 0)

Canon(n) == {c \in SeqsUpTo(n) : IsCanonical(c)}

Junk == SeqsUpTo(MaxJunk)

Ok(c) == [st |-> "ok", c |-> c]

Fail(s) == [st |-> s, c |-> <<>>]

\* The status of a computation with two sub-computations (operand order is
\* unspecified in C++, so undefined behaviour in either dominates).
Worst(A, B) ==
    IF A.st = "ub" \/ B.st = "ub" THEN "ub"
    ELSE IF A.st # "ok" THEN A.st ELSE B.st

----------------------------------------------------------------------------
\* Polynomial.h, the pure part.

RECURSIVE shorten(_)
shorten(c) ==
    IF Len(c) > 1 /\ c[Len(c)] = 0 THEN shorten(SubSeq(c, 1, Len(c) - 1)) ELSE c

\* shorten() of a vector that may be empty: back() of an empty vector.
Shortened(c) == IF Len(c) = 0 THEN Fail("ub") ELSE Ok(shorten(c))

deg(c) == IF Len(c) = 1 THEN (IF c[1] # 0 THEN 1 ELSE 0) ELSE Len(c)

\* The vector after resize(n): kept entries, value-initialised new ones.
Resized(c, n) == [i \in 1..n |-> IF i <= Len(c) THEN c[i] ELSE 0]

plus_assign(a, b) ==
    LET n == Max(Len(a), Len(b))
    IN  IF Len(b) < n THEN Fail("ub")
        ELSE Shortened([i \in 1..n |-> FAdd(Resized(a, n)[i], b[i])])

minus_assign(a, b) ==
    LET n == Max(Len(a), Len(b))
    IN  IF Len(b) < n THEN Fail("ub")
        ELSE Shortened([i \in 1..n |-> FSub(Resized(a, n)[i], b[i])])

\* What the receiver of += / -= may hold once other.coeffs[i] was read past its
\* end: the entries below other's size are computed, each entry above it has
\* taken an arbitrary value, and shorten() has run.
GarbageTail(a, b, done) ==
    {shorten(done \o t) : t \in [1..(Len(a) - Len(b)) -> T]}

PlusGarbage(a, b) == GarbageTail(a, b, [i \in 1..Len(b) |-> FAdd(a[i], b[i])])

MinusGarbage(a, b) == GarbageTail(a, b, [i \in 1..Len(b) |-> FSub(a[i], b[i])])

scalar_times_assign(a, x) == Shortened([i \in 1..Len(a) |-> FMul(a[i], x)])

scalar_div_assign(a, x) == scalar_times_assign(a, FMul(FromInt(1), FInv(x)))

\* Sum over i' in i..Len(a)-1 of a[i'] * b[k-i'] (indices from 0).
RECURSIVE ConvAt(_, _, _, _)
ConvAt(a, b, k, i) ==
    IF i >= Len(a) THEN 0
    ELSE LET j == k - i
         IN  FAdd(IF j >= 0 /\ j < Len(b) THEN FMul(a[i + 1], b[j + 1]) ELSE 0,
                  ConvAt(a, b, k, i + 1))

\* The largest index result[i + j] that multiply_brute_force touches.
MaxIndex(a, b) == IF Len(a) = 0 \/ Len(b) = 0 THEN -1 ELSE Len(a) + Len(b) - 2

multiply_brute_force(a, b, sz) ==
    IF sz < 0 THEN Fail("throw")
    ELSE IF MaxIndex(a, b) >= sz THEN Fail("ub")
    ELSE Ok([k \in 1..sz |-> ConvAt(a, b, k - 1, 0)])

\* FFT.h is not part of the sources: the convolution of a and b.
fft_multiply(a, b) == Ok([k \in 1..(Len(a) + Len(b) - 1) |-> ConvAt(a, b, k - 1, 0)])

BruteForceLimit == 200

result_deg(a, b) == deg(a) + deg(b) - 1

times_assign(a, b) ==
    LET prod == IF result_deg(a, b) <= BruteForceLimit
                THEN multiply_brute_force(a, b, result_deg(a, b))
                ELSE fft_multiply(a, b)
    IN  IF prod.st # "ok" THEN prod ELSE Shortened(prod.c)

RECURSIVE Horner(_, _, _, _)
Horner(c, x, i, res) ==
    IF i < 1 THEN res ELSE Horner(c, x, i - 1, FAdd(FMul(res, x), c[i]))

evaluate(c, x) == Horner(c, x, Len(c), 0)

derivation(c) ==
    IF Len(c) = 0 THEN Fail("ub")
    ELSE Ok([i \in 1..(Len(c) - 1) |-> FMul(c[i + 1], FromInt(i))])

\* operator%(int n): coeffs.size() <= n compares as unsigned, so a negative n
\* is larger than every size.
mod_xn(c, n) ==
    IF n = 0 THEN Ok(<<0>>)
    ELSE IF n < 0 \/ Len(c) <= n THEN Ok(c)
    ELSE Shortened(SubSeq(c, 1, n))

\* Outcome-level wrappers for nested expressions.
Times(A, B) ==
    IF A.st = "ok" /\ B.st = "ok" THEN times_assign(A.c, B.c) ELSE Fail(Worst(A, B))

Minus(A, B) ==
    IF A.st = "ok" /\ B.st = "ok" THEN minus_assign(A.c, B.c) ELSE Fail(Worst(A, B))

ModXn(A, n) == IF A.st = "ok" THEN mod_xn(A.c, n) ELSE A

\* The Newton step with one factor R missing: R * 2 - R * (*this % sz).
NewtonStepNoSquare(R, p, sz) ==
    Minus(scalar_times_assign(R, FromInt(2)), Times(Ok(R), mod_xn(p, sz)))

\* R * 2 - R * R * (*this % sz)
NewtonStep(R, p, sz) ==
    Minus(scalar_times_assign(R, FromInt(2)),
          Times(Times(Ok(R), Ok(R)), mod_xn(p, sz)))

RECURSIVE ReciprocalLoop(_, _, _, _)
ReciprocalLoop(p, n, sz, R) ==
    IF R.st # "ok" THEN R
    ELSE IF sz < n THEN ReciprocalLoop(p, n, 2 * sz, NewtonStep(R.c, p, 2 * sz))
    ELSE mod_xn(R.c, n)

reciprocal(p, n) ==
    IF Len(p) = 0 THEN Fail("ub")
    ELSE IF p[1] = 0 THEN Fail("assert")   \* assert(coeffs[0] != 0)
    ELSE ReciprocalLoop(p, n, 1, Ok(<<FMul(1, FInv(p[1]))>>))

Reversed(c) == [i \in 1..Len(c) |-> c[Len(c) + 1 - i]]

rev(c) == Shortened(Reversed(c))

Rev(A) == IF A.st = "ok" THEN rev(A.c) ELSE A

divide(f, g) ==
    LET n == deg(f) - deg(g) + 1
        gr == rev(g)
        inv == IF gr.st = "ok" THEN reciprocal(gr.c, n) ELSE gr
    IN  Rev(ModXn(Times(rev(f), inv), n))

\* The pair (q, r) of divide_modulo, as [q, r] of outcomes.
divide_modulo(f, g) ==
    LET q == divide(f, g)
    IN  [q |-> q, r |-> Minus(Ok(f), Times(Ok(g), q))]

\* What divide_modulo may hand back after undefined behaviour: when g*q was
\* computed and only the subtraction read past its end, q is the computed
\* quotient and r holds an arbitrary tail; otherwise anything.
QuotientGarbage(f, g) ==
    IF Times(Ok(g), divide(f, g)).st = "ok" THEN {divide(f, g).c} ELSE Junk

RemainderGarbage(f, g) ==
    LET gq == Times(Ok(g), divide(f, g))
    IN  IF gq.st = "ok" THEN MinusGarbage(f, gq.c) ELSE Junk

----------------------------------------------------------------------------
\* The object-level state machine: one polynomial (coeffs), one argument
\* polynomial (other), and one action per operator.

Alive == status \in {"ok", "throw"}

Init ==
    /\ coeffs \in Canon(MaxLen)
    /\ other \in Canon(MaxLen)
    /\ op = "init"
    /\ arg = 0
    /\ ret = <<>>
    /\ rem = <<>>
    /\ val = 0
    /\ status = "ok"
    /\ xs = <<>>
    /\ tree = <<>>
    /\ stack = <<>>
    /\ rv = <<>>
    /\ wlog = <<>>
    /\ rlog = {}

\* A mutating operator ended with outcome o: the receiver takes the value.
Mutate(name, a, o, garbage) ==
    /\ op' = name
    /\ arg' = a
    /\ status' = o.st
    /\ IF o.st = "ok" THEN coeffs' = o.c
       ELSE IF o.st = "ub" THEN coeffs' \in garbage
       ELSE coeffs' = coeffs
    /\ ret' = <<>>
    /\ rem' = <<>>
    /\ val' = 0
    /\ UNCHANGED <<other, xs, tree, stack, rv, wlog, rlog>>

\* A const operator ended with outcome o: the value is returned.
Return(name, a, o, garbage) ==
    /\ op' = name
    /\ arg' = a
    /\ status' = o.st
    /\ IF o.st = "ok" THEN ret' = o.c
       ELSE IF o.st = "ub" THEN ret' \in garbage
       ELSE ret' = <<>>
    /\ rem' = <<>>
    /\ val' = 0
    /\ UNCHANGED <<coeffs, other, xs, tree, stack, rv, wlog, rlog>>

PlusAssign == Alive /\ Mutate("+=", 0, plus_assign(coeffs, other), PlusGarbage(coeffs, other))

Plus == Alive /\ Return("+", 0, plus_assign(coeffs, other), PlusGarbage(coeffs, other))

MinusAssign == Alive /\ Mutate("-=", 0, minus_assign(coeffs, other), MinusGarbage(coeffs, other))

MinusOp == Alive /\ Return("-", 0, minus_assign(coeffs, other), MinusGarbage(coeffs, other))

ScalarTimesAssign ==
    Alive /\ \E x \in T : Mutate("*=T", x, scalar_times_assign(coeffs, x), Junk)

ScalarDivAssign ==
    Alive /\ \E x \in T \ {0} : Mutate("/=T", x, scalar_div_assign(coeffs, x), Junk)

TimesAssign ==
    /\ Alive
    /\ Len(coeffs) + Len(other) - 1 <= MaxLen
    /\ Mutate("*=", 0, times_assign(coeffs, other), Junk)

TimesOp == Alive /\ Return("*", 0, times_assign(coeffs, other), Junk)

DivAssign == Alive /\ Mutate("/=", 0, divide(coeffs, other), Junk)

DivOp == Alive /\ Return("/", 0, divide(coeffs, other), Junk)

ModOp == Alive /\ Return("%", 0, divide_modulo(coeffs, other).r, RemainderGarbage(coeffs, other))

ModAssign == Alive /\ Mutate("%=", 0, divide_modulo(coeffs, other).r, RemainderGarbage(coeffs, other))

DivideModulo ==
    /\ Alive
    /\ LET qr == divide_modulo(coeffs, other)
           st == Worst(qr.q, qr.r)
       IN  /\ status' = st
           /\ IF st = "ok" THEN ret' = qr.q.c /\ rem' = qr.r.c
              ELSE IF st = "ub"
              THEN /\ ret' \in QuotientGarbage(coeffs, other)
                   /\ rem' \in RemainderGarbage(coeffs, other)
              ELSE ret' = <<>> /\ rem' = <<>>
    /\ op' = "divide_modulo"
    /\ arg' = 0
    /\ val' = 0
    /\ UNCHANGED <<coeffs, other, xs, tree, stack, rv, wlog, rlog>>

Evaluate ==
    /\ Alive
    /\ \E x \in T :
        /\ arg' = x
        /\ val' = evaluate(coeffs, x)
    /\ op' = "evaluate"
    /\ status' = "ok"
    /\ ret' = <<>>
    /\ rem' = <<>>
    /\ UNCHANGED <<coeffs, other, xs, tree, stack, rv, wlog, rlog>>

Derivation == Alive /\ Return("derivation", 0, derivation(coeffs), Junk)

ModXnOp == Alive /\ \E n \in 0..MaxN : Return("%n", n, mod_xn(coeffs, n), Junk)

Reciprocal == Alive /\ \E n \in 0..MaxN : Return("reciprocal", n, reciprocal(coeffs, n), Junk)

Next ==
    \/ PlusAssign
    \/ Plus
    \/ MinusAssign
    \/ MinusOp
    \/ ScalarTimesAssign
    \/ ScalarDivAssign
    \/ TimesAssign
    \/ TimesOp
    \/ DivAssign
    \/ DivOp
    \/ ModOp
    \/ ModAssign
    \/ DivideModulo
    \/ Evaluate
    \/ Derivation
    \/ ModXnOp
    \/ Reciprocal

Spec == Init /\ [][Next]_vars

----------------------------------------------------------------------------
\* The recursive functions, one step at a time: linear_factors_product (both
\* overloads) and multi_point_evaluation, on an explicit call stack.

Frame(fn, v, l, r, p) ==
    [fn |-> fn, v |-> v, l |-> l, r |-> r, pc |-> "enter",
     p |-> p, a2 |-> <<>>, acc |-> <<>>, lf |-> TRUE]

Top == stack[Len(stack)]

Pop == SubSeq(stack, 1, Len(stack) - 1)

Mid(l, r) == (l + r) \div 2

LeftChild(v) == 2 * v

\* The right child stored at the left child's index.
RightChildAtLeft(v) == 2 * v

RightChild(v) == 2 * v + 1

\* std::vector<Polynomial<T>> tree(4*n): default-constructed (empty) entries.
TreeSize(n) == 4 * n

NewTree(n) == [i \in 0..(TreeSize(n) - 1) |-> <<>>]

\* Is the running build the overload that stores the tree?
Stores(fn) == fn = "lfpT"

TreeInit ==
    /\ coeffs \in Canon(MaxLen)
    /\ xs \in SeqsUpTo(MaxPts)
    /\ other = <<0>>
    /\ op = "init"
    /\ arg = 0
    /\ ret = <<>>
    /\ rem = <<>>
    /\ val = 0
    /\ status = "ok"
    /\ tree = <<>>
    /\ stack = <<>>
    /\ rv = <<>>
    /\ wlog = <<>>
    /\ rlog = {}

\* The call ends early with status st: undefined behaviour or an exception.
Abort(st) ==
    /\ status' = st
    /\ stack' = <<>>
    /\ op' = IF op = "product" THEN "product_done" ELSE "mpe_done"
    /\ IF st = "ub" THEN ret' \in Junk ELSE ret' = <<>>
    /\ rv' = <<>>

\* tree[v] = c.
Store(v, c) ==
    /\ wlog' = Append(wlog, v)
    /\ tree' = IF v \in DOMAIN tree THEN [tree EXCEPT ![v] = c] ELSE tree

CallLinearFactorsProduct ==
    /\ op = "init"
    /\ op' = "product"
    /\ stack' = <<Frame("lfp", 0, 0, Len(xs), <<>>)>>
    /\ UNCHANGED <<coeffs, other, arg, ret, rem, val, status, xs, tree, rv, wlog, rlog>>

CallMultiPointEvaluation ==
    /\ op = "init"
    /\ op' = "build"
    /\ tree' = NewTree(Len(xs))
    /\ stack' = <<Frame("lfpT", 1, 0, Len(xs), <<>>)>>
    /\ UNCHANGED <<coeffs, other, arg, ret, rem, val, status, xs, rv, wlog, rlog>>

LfpLeaf ==
    /\ stack # <<>>
    /\ Top.fn \in {"lfp", "lfpT"}
    /\ Top.pc = "enter"
    /\ Top.l + 1 = Top.r
    /\ LET c == <<FNeg(xs[Top.l + 1]), 1>>
       IN  IF Stores(Top.fn) /\ Top.v \notin DOMAIN tree
           THEN Store(Top.v, c) /\ Abort("ub") /\ UNCHANGED <<coeffs, other, arg, rem, val, xs, rlog>>
           ELSE /\ IF Stores(Top.fn) THEN Store(Top.v, c) ELSE UNCHANGED <<tree, wlog>>
                /\ rv' = c
                /\ stack' = Pop
                /\ UNCHANGED <<coeffs, other, op, arg, ret, rem, val, status, xs, rlog>>

\* The operands of operator* are evaluated in either order.
LfpSplit ==
    /\ stack # <<>>
    /\ Top.fn \in {"lfp", "lfpT"}
    /\ Top.pc = "enter"
    /\ Top.l + 1 # Top.r
    /\ Len(stack) < MaxDepth
    /\ \E lf \in BOOLEAN :
        LET m == Mid(Top.l, Top.r)
            child == IF lf THEN Frame(Top.fn, LeftChild(Top.v), Top.l, m, <<>>)
                     ELSE Frame(Top.fn, RightChild(Top.v), m, Top.r, <<>>)
        IN  stack' = Append([stack EXCEPT ![Len(stack)] =
                                [@ EXCEPT !.pc = "first", !.lf = lf]], child)
    /\ UNCHANGED <<coeffs, other, op, arg, ret, rem, val, status, xs, tree, rv, wlog, rlog>>

LfpSecond ==
    /\ stack # <<>>
    /\ Top.fn \in {"lfp", "lfpT"}
    /\ Top.pc = "first"
    /\ LET m == Mid(Top.l, Top.r)
           child == IF Top.lf THEN Frame(Top.fn, RightChild(Top.v), m, Top.r, <<>>)
                    ELSE Frame(Top.fn, LeftChild(Top.v), Top.l, m, <<>>)
       IN  stack' = Append([stack EXCEPT ![Len(stack)] =
                               [@ EXCEPT !.pc = "second", !.p = rv]], child)
    /\ UNCHANGED <<coeffs, other, op, arg, ret, rem, val, status, xs, tree, rv, wlog, rlog>>

LfpMultiply ==
    /\ stack # <<>>
    /\ Top.fn \in {"lfp", "lfpT"}
    /\ Top.pc = "second"
    /\ LET left == IF Top.lf THEN Top.p ELSE rv
           right == IF Top.lf THEN rv ELSE Top.p
           prod == times_assign(left, right)
       IN  IF prod.st # "ok"
           THEN Abort(prod.st) /\ UNCHANGED <<coeffs, other, arg, rem, val, xs, tree, wlog, rlog>>
           ELSE IF Stores(Top.fn) /\ Top.v \notin DOMAIN tree
           THEN Store(Top.v, prod.c) /\ Abort("ub") /\ UNCHANGED <<coeffs, other, arg, rem, val, xs, rlog>>
           ELSE /\ IF Stores(Top.fn) THEN Store(Top.v, prod.c) ELSE UNCHANGED <<tree, wlog>>
                /\ rv' = prod.c
                /\ stack' = Pop
                /\ UNCHANGED <<coeffs, other, op, arg, ret, rem, val, status, xs, rlog>>

ReturnProduct ==
    /\ op = "product"
    /\ stack = <<>>
    /\ op' = "product_done"
    /\ ret' = rv
    /\ UNCHANGED <<coeffs, other, arg, rem, val, status, xs, tree, stack, rv, wlog, rlog>>

StartTraversal ==
    /\ op = "build"
    /\ stack = <<>>
    /\ op' = "traverse"
    /\ stack' = <<Frame("mpe", 1, 0, Len(xs), coeffs)>>
    /\ UNCHANGED <<coeffs, other, arg, ret, rem, val, status, xs, tree, rv, wlog, rlog>>

MpeLeaf ==
    /\ stack # <<>>
    /\ Top.fn = "mpe"
    /\ Top.pc = "enter"
    /\ Top.l + 1 = Top.r
    /\ rv' = <<evaluate(Top.p, xs[Top.l + 1])>>
    /\ stack' = Pop
    /\ UNCHANGED <<coeffs, other, op, arg, ret, rem, val, status, xs, tree, wlog, rlog>>

MpeSplit ==
    /\ stack # <<>>
    /\ Top.fn = "mpe"
    /\ Top.pc = "enter"
    /\ Top.l + 1 # Top.r
    /\ LET lc == LeftChild(Top.v)
           rc == RightChild(Top.v)
           m == Mid(Top.l, Top.r)
       IN  /\ rlog' = rlog \cup {lc, rc}
           /\ IF lc \notin DOMAIN tree \/ rc \notin DOMAIN tree
              THEN Abort("ub")
              ELSE LET A1 == divide_modulo(Top.p, tree[lc]).r
                       A2 == divide_modulo(Top.p, tree[rc]).r
                   IN  IF A1.st # "ok" \/ A2.st # "ok"
                       THEN Abort(Worst(A1, A2))
                       ELSE /\ stack' = Append([stack EXCEPT ![Len(stack)] =
                                                   [@ EXCEPT !.pc = "left", !.a2 = A2.c]],
                                               Frame("mpe", lc, Top.l, m, A1.c))
                            /\ UNCHANGED <<op, ret, status, rv>>
    /\ UNCHANGED <<coeffs, other, arg, rem, val, xs, tree, wlog>>

MpeRight ==
    /\ stack # <<>>
    /\ Top.fn = "mpe"
    /\ Top.pc = "left"
    /\ stack' = Append([stack EXCEPT ![Len(stack)] = [@ EXCEPT !.pc = "right", !.acc = rv]],
                       Frame("mpe", RightChild(Top.v), Mid(Top.l, Top.r), Top.r, Top.a2))
    /\ UNCHANGED <<coeffs, other, op, arg, ret, rem, val, status, xs, tree, rv, wlog, rlog>>

MpeConcat ==
    /\ stack # <<>>
    /\ Top.fn = "mpe"
    /\ Top.pc = "right"
    /\ rv' = Top.acc \o rv
    /\ stack' = Pop
    /\ UNCHANGED <<coeffs, other, op, arg, ret, rem, val, status, xs, tree, wlog, rlog>>

ReturnEvaluation ==
    /\ op = "traverse"
    /\ stack = <<>>
    /\ op' = "mpe_done"
    /\ ret' = rv
    /\ UNCHANGED <<coeffs, other, arg, rem, val, status, xs, tree, stack, rv, wlog, rlog>>

TreeNext ==
    \/ CallLinearFactorsProduct
    \/ CallMultiPointEvaluation
    \/ LfpLeaf
    \/ LfpSplit
    \/ LfpSecond
    \/ LfpMultiply
    \/ ReturnProduct
    \/ StartTraversal
    \/ MpeLeaf
    \/ MpeSplit
    \/ MpeRight
    \/ MpeConcat
    \/ ReturnEvaluation

TreeSpec == TreeInit /\ [][TreeNext]_vars

----------------------------------------------------------------------------
\* Reference values the properties compare against.

\* The coefficient of x^k in c (k from 0), zero beyond the stored ones.
Coef(c, k) == IF k + 1 <= Len(c) THEN c[k + 1] ELSE 0

\* The canonical sum: the shorter operand padded with zeros.
PolySum(a, b) ==
    shorten([i \in 1..Max(Len(a), Len(b)) |-> FAdd(Coef(a, i - 1), Coef(b, i - 1))])

\* The canonical product.
PolyProduct(a, b) ==
    shorten([k \in 1..(Len(a) + Len(b) - 1) |-> ConvAt(a, b, k - 1, 0)])

RECURSIVE CeilLog2(_)
CeilLog2(n) == IF n <= 1 THEN 0 ELSE 1 + CeilLog2((n + 1) \div 2)

Range(s) == {s[i] : i \in 1..Len(s)}

MutatingOps == {"+=", "-=", "*=T", "/=T", "*=", "/=", "%="}

DivisionOps == {"/", "/=", "%", "%=", "divide_modulo"}

ErrorOutcomes == {"throw", "assert"}

----------------------------------------------------------------------------
\* C1: division identity. After divide_modulo of a canonical dividend by a
\* canonical nonzero divisor with deg(f) >= deg(g), the call ended normally,
\* f == q*g + r and deg(r) < deg(g).
C1_DivisionIdentity ==
    (op = "divide_modulo" /\ other # <<0>> /\ deg(coeffs) >= deg(other))
        => /\ status = "ok"
           /\ IsCanonical(ret) /\ IsCanonical(rem)
           /\ coeffs = PolySum(PolyProduct(ret, other), rem)
           /\ deg(rem) < deg(other)

\* C2: multi-point evaluation equivalence. A finished multi_point_evaluation
\* over a non-empty point list touched no vector outside its bounds and
\* returned evaluate(x) for every point x, in the order of the points.
C2_MultiPointEquivalence ==
    (op = "mpe_done" /\ Len(xs) >= 1)
        => /\ status = "ok"
           /\ ret = [i \in 1..Len(xs) |-> evaluate(coeffs, xs[i])]

\* C3: canonical-form invariant. After every mutating operator the receiver's
\* coefficient vector is non-empty and has no trailing zero unless its length
\* is 1.
C3_CanonicalForm == op \in MutatingOps => IsCanonical(coeffs)

\* C4: addition pads the shorter operand. a + b reads no coefficient outside
\* either operand and is the canonical elementwise sum, whichever operand is
\* the longer.
C4_AdditionPads ==
    op = "+" => (status = "ok" /\ ret = PolySum(coeffs, other))

\* C5: an undersized dividend is an explicit error. Every step of a division
\* operator whose dividend has a smaller deg() than the divisor ends in an
\* error outcome, returns no quotient or remainder, and leaves the receiver
\* as it was.
C5_UndersizedDividend ==
    [][(op' \in DivisionOps /\ deg(coeffs) < deg(other))
          => /\ status' \in ErrorOutcomes
             /\ ret' = <<>> /\ rem' = <<>>
             /\ coeffs' = coeffs]_vars

\* C6: reciprocal correctness. For p with a nonzero constant coefficient and
\* n >= 1, R = p.reciprocal(n) has at most n coefficients and the first n
\* coefficients of R*p are 1, 0, ..., 0.
C6_Reciprocal ==
    (op = "reciprocal" /\ coeffs[1] # 0 /\ arg >= 1)
        => /\ status = "ok"
           /\ Len(ret) <= arg
           /\ \A k \in 0..(arg - 1) :
                ConvAt(ret, coeffs, k, 0) = (IF k = 0 THEN 1 ELSE 0)

\* C6 witness: a reciprocal to precision 3 or more of a polynomial of three
\* coefficients, with three or more coefficients in the result.
C6_Witness ==
    /\ op = "reciprocal" /\ status = "ok"
    /\ arg >= 3 /\ Len(coeffs) >= 3 /\ coeffs[1] # 0
    /\ Len(ret) >= 3

\* C7: the direct convolution stays inside its buffer. For a * b below the
\* threshold the buffer size is non-negative, every index i + j is inside it,
\* and the result is the canonical product.
C7_MultiplyInBuffer ==
    (op = "*" /\ result_deg(coeffs, other) <= BruteForceLimit)
        => /\ result_deg(coeffs, other) >= 0
           /\ MaxIndex(coeffs, other) < result_deg(coeffs, other)
           /\ status = "ok"
           /\ ret = PolyProduct(coeffs, other)

\* C8: bounded recursion. The number of nested recursive calls below the
\* first call never exceeds ceil(log2(n)) for n roots, 0 for n <= 1.
C8_RecursionDepth ==
    stack # <<>> => Len(stack) - 1 <= CeilLog2(Len(xs))

\* C9: the tree is written once, then only read. Every index written lies in
\* 1..4n-1 inside the allocated vector, no index is written twice, the
\* traversal reads only written indices, no write follows a read, and the
\* traversal leaves the tree as the build left it.
C9_WriteOnceThenRead ==
    /\ [](op \in {"build", "traverse", "mpe_done"} =>
            /\ DOMAIN tree = 0..(4 * Len(xs) - 1)
            /\ \A i \in 1..Len(wlog) : wlog[i] >= 1 /\ wlog[i] < 4 * Len(xs)
            /\ \A i, j \in 1..Len(wlog) : wlog[i] = wlog[j] => i = j
            /\ rlog \subseteq Range(wlog)
            /\ (op = "mpe_done" /\ status = "ok" => Len(wlog) = 2 * Len(xs) - 1))
    /\ [][/\ wlog' # wlog => (rlog = {} /\ rlog' = {} /\ op = "build")
          /\ op = "traverse" => (tree' = tree /\ wlog' = wlog)]_vars

\* C9 witness: an evaluation at three or more points that ran to its end,
\* having written 2n-1 nodes and read the children of the inner nodes.
C9_Witness ==
    /\ op = "mpe_done" /\ status = "ok"
    /\ Len(xs) >= 3
    /\ Len(wlog) = 2 * Len(xs) - 1
    /\ Cardinality(rlog) = 2 * Len(xs) - 2

\* C10: derivative. derivation() of a constant is the canonical zero <<0>>;
\* of a longer input it is one coefficient shorter, with coefficient i equal
\* to (i+1) times the input's coefficient i+1.
C10_Derivation ==
    op = "derivation"
        => /\ status = "ok"
           /\ Len(coeffs) = 1 => ret = <<0>>
           /\ Len(coeffs) > 1 =>
                /\ Len(ret) = Len(coeffs) - 1
                /\ \A i \in 0..(Len(ret) - 1) :
                     Coef(ret, i) = FMul(FromInt(i + 1), Coef(coeffs, i + 1))

====
